---------------------------- MODULE Spec2Model ----------------------------
(***************************************************************************)
(* Connection establishment and session transport of the shared-cockpit   *)
(* client (src/src/server/client.rs) and the message dispatch and control  *)
(* arbitration of the application loop (src/src/main.rs).                  *)
(*                                                                         *)
(* Spec      : one client session: the worker thread of Client::run, the  *)
(*             network feeding its socket and the application thread      *)
(*             calling into the Client.                                    *)
(*             The worker holds the Mutex around the TransferStruct from   *)
(*             the start of a loop iteration to the sleep; the stop flag   *)
(*             and the two channels are shared without it.                 *)
(* FairSpec  : Spec with the worker thread scheduled again and again and   *)
(*             every begun Client::stop completed.                         *)
(* SpecApp   : the loop of main() at one peer, fed any inbound messages   *)
(*             and any requests of the user and the simulator.            *)
(* SpecPeers : three peers of one session whose TransferControl requests  *)
(*             the server relays to all of them in one order.             *)
(*                                                                         *)
(* Time is counted in loop sleeps of the worker (LOOP_SLEEP_TIME_MS): one  *)
(* second is SecondLen sleeps.  Instants are kept as the time elapsed      *)
(* since they were taken, saturated just above the largest threshold the  *)
(* code compares them with.                                                *)
(***************************************************************************)
EXTENDS Integers, Sequences, FiniteSets, TLC

\* ------------------------------------------------------------------ bounds
\* loop sleeps per second
SecondLen == 1
\* config.conn_timeout, in seconds
Timeout == 1
\* steps of the session's environment: datagrams and transport events the
\* network hands to the socket, payloads the application thread queues for
\* sending, calls of Client::stop by the application thread
MaxEnv == 2
\* inputs of the application loops: inbound messages, requests of the user,
\* requests of the simulator
MaxIn == 3

\* turns of the application loop in the three seconds of the initial
\* connection delay
DelayLen == 2

\* ------------------------------------------------------------ constants
MAX_PUNCH_RETRIES == 3

\* ---------------------------------------------------------------- values
None == <<>>
Some(x) == <<x>>
IsSome(o) == o /= <<>>
Unwrap(o) == o[1]

RendezvousAddr == "rendezvous"
HostAddr == "host"
StrangerAddr == "stranger"
Addrs == {RendezvousAddr, HostAddr, StrangerAddr}
\* where a Handshake can come from
HandshakeAddrs == {HostAddr, StrangerAddr}

UserName == "me"
AppVersion == "v2"
ServerVersion == "v1"

BlankSessionId == ""
HostedSessionId == "s1"
SessionIds == {BlankSessionId, HostedSessionId}

Handshake(sid) == [type |-> "Handshake", session_id |-> sid]
InitHandshake(n, v) == [type |-> "InitHandshake", name |-> n, version |-> v]
AttemptConnection(p) == [type |-> "AttemptConnection", peer |-> p]
InvalidVersion(v) == [type |-> "InvalidVersion", server_version |-> v]
InvalidName == [type |-> "InvalidName"]
Ready == [type |-> "Ready"]
TransferControlMsg(f, t) == [type |-> "TransferControl", from |-> f, to |-> t]

\* ReceiveMessage::Payload / ReceiveMessage::Event
Payload(p) == [kind |-> "Payload", payload |-> p]
ConnectionEstablished == [kind |-> "Event", event |-> "ConnectionEstablished"]
ConnectionLost(reason) == [kind |-> "Event", event |-> "ConnectionLost", reason |-> reason]
UnablePunchthrough == [kind |-> "Event", event |-> "UnablePunchthrough"]

\* what the network can put on the socket
NetPayloads ==
    {Handshake(s) : s \in SessionIds}
        \cup {AttemptConnection(HostAddr), InvalidVersion(ServerVersion), InvalidName, Ready}
UpdateMsg(f, t) == [type |-> "Update", from |-> f, time |-> t]
\* what the application queues for sending: no two updates carry the same time
AppPayloads(time) == {UpdateMsg(UserName, time)}

Packet(a, p, t) == [ev |-> "Packet", addr |-> a, payload |-> p, age |-> t]
Closed(a, t) == [ev |-> "ConnectionClosed", addr |-> a, age |-> t]

Min(a, b) == IF a < b THEN a ELSE b
AgeCap == SecondLen + 1
Older(q) == [i \in DOMAIN q |-> [q[i] EXCEPT !.age = Min(@ + 1, AgeCap)]]

VARIABLES
    \* TransferStruct
    connected, received_address, retry_timer, session_id, retries, should_stop,
    \* Client::run locals
    rendezvous, rendezvous_timer, pc,
    \* channels: client_tx -> client_rx, server_tx -> server_rx
    client_rx, server_rx,
    \* the socket: datagrams arrived, events polled, datagrams sent
    wire, net_in, sent,
    \* history: the last step taken, iterations begun with the stop flag set,
    \* n_env used
    last, iter_after_stop, n_env,
    \* the holder of the Mutex around the TransferStruct, the position of the
    \* application thread inside the Client call it is making
    lock, app_pc,
    \* the application loop of every peer, the TransferControl requests the
    \* server has taken and not yet relayed, the last step of the application
    \* loops, the inputs they have taken
    app, relay, app_last, n_in

session_vars == <<connected, received_address, retry_timer, session_id, retries,
                  should_stop, rendezvous, rendezvous_timer, pc, client_rx, server_rx,
                  wire, net_in, sent, last, iter_after_stop, n_env, lock, app_pc>>
app_vars == <<app, relay, app_last, n_in>>
vars == <<session_vars, app_vars>>

transfer == <<connected, received_address, retry_timer, session_id, retries>>

Step(op) == [op |-> op]

\* messages::send_message(payload, addr, sender)
send_message(payload, addr) == sent' = Append(sent, [to |-> addr, payload |-> payload])

\* ---------------------------------------------------------------- start
\* Client::new, then Client::start / Client::start_with_hole_punch, then the
\* TransferStruct built by Client::run
run(sid, rdv, target, first_to) ==
    /\ connected = FALSE
    /\ received_address = target
    /\ retry_timer = None
    /\ session_id = sid
    /\ retries = 0
    /\ should_stop = FALSE
    /\ rendezvous = rdv
    /\ rendezvous_timer = 0
    /\ pc = "loop"
    /\ client_rx = <<>>
    /\ server_rx = <<>>
    /\ wire = <<>>
    /\ net_in = <<>>
    /\ sent = <<[to |-> first_to, payload |-> Handshake(sid)]>>
    /\ last = Step("start")
    /\ iter_after_stop = 0
    /\ n_env = 0
    /\ lock = "free"
    /\ app_pc = "idle"

start == run(BlankSessionId, None, Some(HostAddr), HostAddr)

start_with_hole_punch == run(HostedSessionId, Some(RendezvousAddr), None, RendezvousAddr)

\* ------------------------------------------------------- TransferStruct
\* TransferStruct::stop, followed by what its caller still enqueues
stop(reason, then) ==
    /\ server_rx' = Append(server_rx, ConnectionLost(reason)) \o then
    /\ should_stop' = TRUE

\* format!("Handshake verification failed! Expected {}, got {}", ..)
HandshakeFailedReason(expected, got) ==
    <<"Handshake verification failed! Expected ", expected, ", got ", got>>
\* format!("Server has mismatching version {}", server_version)
InvalidVersionReason(server_version) == <<"Server has mismatching version ", server_version>>
\* format!("{} already in use!", self.name)
InvalidNameReason(name) == <<name, " already in use!">>

\* handle_message, Payloads::Handshake with self.connected: return
handshake_ignored == UNCHANGED <<transfer, should_stop, server_rx, sent>>

\* handle_message, Payloads::Handshake with another session id: stop, return
handshake_rejected(payload) ==
    /\ stop(HandshakeFailedReason(session_id, payload.session_id), <<>>)
    /\ UNCHANGED <<transfer, sent>>

\* mutant: the accepted handshake is not answered with InitHandshake
handshake_accepted_NoInit(addr, payload) ==
    /\ connected' = TRUE
    /\ server_rx' = server_rx \o <<ConnectionEstablished, Payload(payload)>>
    /\ UNCHANGED <<received_address, retry_timer, session_id, retries, should_stop, sent>>

\* mutant: an accepted handshake clears the stop flag
handshake_accepted_ClearsStop(addr, payload) ==
    /\ connected' = TRUE
    /\ should_stop' = FALSE
    /\ send_message(InitHandshake(UserName, AppVersion), addr)
    /\ server_rx' = server_rx \o <<ConnectionEstablished, Payload(payload)>>
    /\ UNCHANGED <<received_address, retry_timer, session_id, retries>>

\* handle_message, Payloads::Handshake: established connection with host
handshake_accepted(addr, payload) ==
    /\ connected' = TRUE
    /\ send_message(InitHandshake(UserName, AppVersion), addr)
    /\ server_rx' = server_rx \o <<ConnectionEstablished, Payload(payload)>>
    /\ UNCHANGED <<received_address, retry_timer, session_id, retries, should_stop>>

\* mutant: InvalidVersion and InvalidName are passed on without stopping
handle_other_Lenient(payload) ==
    CASE payload.type = "AttemptConnection" ->
            /\ received_address' = Some(payload.peer)
            /\ server_rx' = Append(server_rx, Payload(payload))
            /\ UNCHANGED <<connected, retry_timer, session_id, retries, should_stop, sent>>
      [] OTHER ->
            /\ server_rx' = Append(server_rx, Payload(payload))
            /\ UNCHANGED <<transfer, should_stop, sent>>

\* handle_message, every arm but Payloads::Handshake
handle_other(payload) ==
    CASE payload.type = "InvalidVersion" ->
            /\ stop(InvalidVersionReason(payload.server_version), <<Payload(payload)>>)
            /\ UNCHANGED <<transfer, sent>>
      [] payload.type = "InvalidName" ->
            /\ stop(InvalidNameReason(UserName), <<Payload(payload)>>)
            /\ UNCHANGED <<transfer, sent>>
      [] payload.type = "AttemptConnection" ->
            /\ received_address' = Some(payload.peer)
            /\ server_rx' = Append(server_rx, Payload(payload))
            /\ UNCHANGED <<connected, retry_timer, session_id, retries, should_stop, sent>>
      [] OTHER ->
            /\ server_rx' = Append(server_rx, Payload(payload))
            /\ UNCHANGED <<transfer, should_stop, sent>>

\* mutant: the session id of a handshake is not verified
handle_message_Unverified(addr, payload) ==
    IF payload.type = "Handshake"
    THEN IF connected
         THEN handshake_ignored
         ELSE handshake_accepted(addr, payload)
    ELSE handle_other(payload)

\* mutant: a handshake is verified again after the connection is established
handle_message_Reverify(addr, payload) ==
    IF payload.type = "Handshake"
    THEN IF payload.session_id /= session_id
         THEN handshake_rejected(payload)
         ELSE IF connected THEN handshake_ignored ELSE handshake_accepted(addr, payload)
    ELSE handle_other(payload)

\* mutant: a matching handshake is accepted again after the connection is
\* established
handle_message_Reaccepts(addr, payload) ==
    IF payload.type = "Handshake"
    THEN IF payload.session_id /= session_id
         THEN IF connected THEN handshake_ignored ELSE handshake_rejected(payload)
         ELSE handshake_accepted(addr, payload)
    ELSE handle_other(payload)

\* TransferStruct::handle_message
handle_message(addr, payload) ==
    IF payload.type = "Handshake"
    THEN IF connected
         THEN handshake_ignored
         ELSE IF payload.session_id /= session_id
         THEN handshake_rejected(payload)
         ELSE handshake_accepted(addr, payload)
    ELSE handle_other(payload)

\* mutant: a queued payload is sent twice
handle_app_message_Resend ==
    /\ pc = "app"
    /\ IF client_rx /= <<>>
       THEN /\ client_rx' = Tail(client_rx)
            /\ IF IsSome(received_address)
               THEN sent' = sent \o << [to |-> Unwrap(received_address), payload |-> Head(client_rx)],
                                       [to |-> Unwrap(received_address), payload |-> Head(client_rx)] >>
               ELSE UNCHANGED sent
            /\ pc' = "app"
            /\ last' = [op |-> "handle_app_message", payload |-> Head(client_rx),
                        sent |-> IsSome(received_address)]
       ELSE /\ pc' = "check"
            /\ last' = Step("handle_app_message_end")
            /\ UNCHANGED <<client_rx, sent>>
    /\ UNCHANGED <<transfer, should_stop, rendezvous, rendezvous_timer, server_rx,
                   wire, net_in, iter_after_stop, n_env>>
    /\ UNCHANGED <<lock, app_pc, app_vars>>

\* TransferStruct::handle_app_message: one turn of its while loop; the loop
\* ends when try_recv finds the channel empty
handle_app_message ==
    /\ pc = "app"
    /\ IF client_rx /= <<>>
       THEN /\ client_rx' = Tail(client_rx)
            /\ IF IsSome(received_address)
               THEN send_message(Head(client_rx), Unwrap(received_address))
               ELSE UNCHANGED sent
            /\ pc' = "app"
            /\ last' = [op |-> "handle_app_message", payload |-> Head(client_rx),
                        sent |-> IsSome(received_address)]
       ELSE /\ pc' = "check"
            /\ last' = Step("handle_app_message_end")
            /\ UNCHANGED <<client_rx, sent>>
    /\ UNCHANGED <<transfer, should_stop, rendezvous, rendezvous_timer, server_rx,
                   wire, net_in, iter_after_stop, n_env>>
    /\ UNCHANGED <<lock, app_pc, app_vars>>

\* mutant: the attempts go on after the connection is established
handle_handshake_Connected ==
    /\ pc = "handshake"
    /\ IF IsSome(retry_timer) /\ Unwrap(retry_timer) < SecondLen
       THEN /\ last' = Step("handle_handshake_skip")
            /\ UNCHANGED <<retry_timer, retries, should_stop, server_rx, sent>>
       ELSE IF IsSome(received_address)
       THEN /\ send_message(Handshake(session_id), Unwrap(received_address))
            /\ retry_timer' = Some(0)
            /\ retries' = (retries + 1) % 256
            /\ should_stop' = (should_stop \/ retries' = MAX_PUNCH_RETRIES)
            /\ last' = Step("handle_handshake_send")
            /\ UNCHANGED server_rx
       ELSE /\ last' = Step("handle_handshake_skip")
            /\ UNCHANGED <<retry_timer, retries, should_stop, server_rx, sent>>
    /\ pc' = IF retries' = MAX_PUNCH_RETRIES /\ retries /= retries' THEN "emit" ELSE "app"
    /\ UNCHANGED <<connected, received_address, session_id, rendezvous, rendezvous_timer,
                   client_rx, wire, net_in, iter_after_stop, n_env>>
    /\ UNCHANGED <<lock, app_pc, app_vars>>

\* mutant: the session stops one attempt later
handle_handshake_OneMore ==
    /\ pc = "handshake"
    /\ IF connected
       THEN /\ last' = Step("handle_handshake_skip")
            /\ UNCHANGED <<retry_timer, retries, should_stop, server_rx, sent>>
       ELSE IF IsSome(retry_timer) /\ Unwrap(retry_timer) < SecondLen
       THEN /\ last' = Step("handle_handshake_skip")
            /\ UNCHANGED <<retry_timer, retries, should_stop, server_rx, sent>>
       ELSE IF IsSome(received_address)
       THEN /\ send_message(Handshake(session_id), Unwrap(received_address))
            /\ retry_timer' = Some(0)
            /\ retries' = (retries + 1) % 256
            /\ should_stop' = (should_stop \/ retries' = MAX_PUNCH_RETRIES + 1)
            /\ last' = Step("handle_handshake_send")
            /\ UNCHANGED server_rx
       ELSE /\ last' = Step("handle_handshake_skip")
            /\ UNCHANGED <<retry_timer, retries, should_stop, server_rx, sent>>
    /\ pc' = IF retries' = MAX_PUNCH_RETRIES + 1 /\ retries /= retries' THEN "emit" ELSE "app"
    /\ UNCHANGED <<connected, received_address, session_id, rendezvous, rendezvous_timer,
                   client_rx, wire, net_in, iter_after_stop, n_env>>
    /\ UNCHANGED <<lock, app_pc, app_vars>>

\* TransferStruct::handle_handshake, up to the store of the stop flag.  The flag
\* is an atomic the application thread reads, the queue a channel it polls:
\* the store at the retry limit and the try_send after it are two steps.
handle_handshake ==
    /\ pc = "handshake"
    /\ IF connected
       THEN /\ last' = Step("handle_handshake_skip")
            /\ UNCHANGED <<retry_timer, retries, should_stop, server_rx, sent>>
       ELSE IF IsSome(retry_timer) /\ Unwrap(retry_timer) < SecondLen
       THEN /\ last' = Step("handle_handshake_skip")
            /\ UNCHANGED <<retry_timer, retries, should_stop, server_rx, sent>>
       ELSE IF IsSome(received_address)
       THEN /\ send_message(Handshake(session_id), Unwrap(received_address))
            /\ retry_timer' = Some(0)
            /\ retries' = (retries + 1) % 256
            /\ should_stop' = (should_stop \/ retries' = MAX_PUNCH_RETRIES)
            /\ last' = Step("handle_handshake_send")
            /\ UNCHANGED server_rx
       ELSE /\ last' = Step("handle_handshake_skip")
            /\ UNCHANGED <<retry_timer, retries, should_stop, server_rx, sent>>
    /\ pc' = IF retries' = MAX_PUNCH_RETRIES /\ retries /= retries' THEN "emit" ELSE "app"
    /\ UNCHANGED <<connected, received_address, session_id, rendezvous, rendezvous_timer,
                   client_rx, wire, net_in, iter_after_stop, n_env>>
    /\ UNCHANGED <<lock, app_pc, app_vars>>

\* TransferStruct::handle_handshake, over the retry limit: the try_send of
\* Event::UnablePunchthrough that follows the store
handle_handshake_emit ==
    /\ pc = "emit"
    /\ pc' = "app"
    /\ server_rx' = Append(server_rx, UnablePunchthrough)
    /\ last' = Step("handle_handshake_emit")
    /\ UNCHANGED <<transfer, should_stop, rendezvous, rendezvous_timer, client_rx, wire,
                   net_in, sent, iter_after_stop, n_env>>
    /\ UNCHANGED <<lock, app_pc, app_vars>>

\* ------------------------------------------------- Client::run, the loop
\* lock the transfer, socket.manual_poll(Instant::now())
manual_poll ==
    /\ pc = "loop"
    /\ lock = "free"
    /\ lock' = "worker"
    /\ pc' = "recv"
    /\ net_in' = net_in \o wire
    /\ wire' = <<>>
    /\ iter_after_stop' = IF should_stop THEN Min(iter_after_stop + 1, 2) ELSE iter_after_stop
    /\ last' = Step("manual_poll")
    /\ UNCHANGED <<transfer, should_stop, rendezvous, rendezvous_timer, client_rx,
                   server_rx, sent, n_env>>
    /\ UNCHANGED <<app_pc, app_vars>>

\* Ok((addr, payload)) => transfer.handle_message(addr, payload)
recv_message ==
    /\ pc = "recv"
    /\ net_in /= <<>>
    /\ Head(net_in).ev = "Packet"
    /\ handle_message(Head(net_in).addr, Head(net_in).payload)
    /\ net_in' = Tail(net_in)
    /\ last' = [op |-> "handle_message", addr |-> Head(net_in).addr,
                payload |-> Head(net_in).payload, age |-> Head(net_in).age,
                connected |-> connected]
    /\ UNCHANGED <<rendezvous, rendezvous_timer, pc, client_rx, wire, iter_after_stop,
                   n_env>>
    /\ UNCHANGED <<lock, app_pc, app_vars>>

\* mutant: every ConnectionClosed stops the session
recv_closed_Always ==
    /\ pc = "recv"
    /\ net_in /= <<>>
    /\ Head(net_in).ev = "ConnectionClosed"
    /\ stop(<<"No message received from server.">>, <<>>)
    /\ net_in' = Tail(net_in)
    /\ last' = [op |-> "ConnectionClosed", addr |-> Head(net_in).addr]
    /\ UNCHANGED <<transfer, rendezvous, rendezvous_timer, pc, client_rx, wire, sent,
                   iter_after_stop, n_env>>
    /\ UNCHANGED <<lock, app_pc, app_vars>>

\* Err(Error::ConnectionClosed(addr))
recv_closed ==
    /\ pc = "recv"
    /\ net_in /= <<>>
    /\ Head(net_in).ev = "ConnectionClosed"
    /\ IF rendezvous = None \/ (IsSome(rendezvous) /\ Unwrap(rendezvous) /= Head(net_in).addr)
       THEN stop(<<"No message received from server.">>, <<>>)
       ELSE UNCHANGED <<should_stop, server_rx>>
    /\ net_in' = Tail(net_in)
    /\ last' = [op |-> "ConnectionClosed", addr |-> Head(net_in).addr]
    /\ UNCHANGED <<transfer, rendezvous, rendezvous_timer, pc, client_rx, wire, sent,
                   iter_after_stop, n_env>>
    /\ UNCHANGED <<lock, app_pc, app_vars>>

\* Err(Error::ReadTimeout) => break
recv_timeout ==
    /\ pc = "recv"
    /\ net_in = <<>>
    /\ pc' = "timer"
    /\ last' = Step("ReadTimeout")
    /\ UNCHANGED <<transfer, should_stop, rendezvous, rendezvous_timer, client_rx,
                   server_rx, wire, net_in, sent, iter_after_stop, n_env>>
    /\ UNCHANGED <<lock, app_pc, app_vars>>

\* mutant: the rendezvous wait is not bounded
check_rendezvous_timer_Never ==
    /\ pc = "timer"
    /\ pc' = "handshake"
    /\ last' = Step("rendezvous_timer_ok")
    /\ UNCHANGED <<transfer, should_stop, rendezvous, rendezvous_timer, client_rx, server_rx,
                   wire, net_in, sent, iter_after_stop, n_env>>
    /\ UNCHANGED <<lock, app_pc, app_vars>>

\* mutant: the rendezvous wait ends a session whose peer address is resolved
check_rendezvous_timer_Resolved ==
    /\ pc = "timer"
    /\ pc' = "handshake"
    /\ IF IsSome(rendezvous) /\ rendezvous_timer >= Timeout * SecondLen
       THEN /\ stop(<<"Could not connect to session.">>, <<>>)
            /\ last' = Step("rendezvous_timeout")
       ELSE /\ UNCHANGED <<should_stop, server_rx>>
            /\ last' = Step("rendezvous_timer_ok")
    /\ UNCHANGED <<transfer, rendezvous, rendezvous_timer, client_rx, wire, net_in, sent,
                   iter_after_stop, n_env>>
    /\ UNCHANGED <<lock, app_pc, app_vars>>

\* Check rendezvous timer
check_rendezvous_timer ==
    /\ pc = "timer"
    /\ pc' = "handshake"
    /\ IF received_address = None /\ IsSome(rendezvous)
          /\ rendezvous_timer >= Timeout * SecondLen
       THEN /\ stop(<<"Could not connect to session.">>, <<>>)
            /\ last' = Step("rendezvous_timeout")
       ELSE /\ UNCHANGED <<should_stop, server_rx>>
            /\ last' = Step("rendezvous_timer_ok")
    /\ UNCHANGED <<transfer, rendezvous, rendezvous_timer, client_rx, wire, net_in, sent,
                   iter_after_stop, n_env>>
    /\ UNCHANGED <<lock, app_pc, app_vars>>

\* mutant: the loop never looks at the stop flag
check_should_stop_Never ==
    /\ pc = "check"
    /\ pc' = "sleep"
    /\ lock' = "free"
    /\ last' = Step("check_should_stop")
    /\ UNCHANGED <<transfer, should_stop, rendezvous, rendezvous_timer, client_rx,
                   server_rx, wire, net_in, sent, iter_after_stop, n_env>>
    /\ UNCHANGED <<app_pc, app_vars>>

\* if transfer.should_stop() {break}, else mem::drop(transfer): the guard of
\* the Mutex is dropped on both ways, at the end of the thread or before the
\* sleep
check_should_stop ==
    /\ pc = "check"
    /\ pc' = IF should_stop THEN "done" ELSE "sleep"
    /\ lock' = "free"
    /\ last' = Step("check_should_stop")
    /\ UNCHANGED <<transfer, should_stop, rendezvous, rendezvous_timer, client_rx,
                   server_rx, wire, net_in, sent, iter_after_stop, n_env>>
    /\ UNCHANGED <<app_pc, app_vars>>

\* sleep(sleep_duration): one unit of time passes
sleep ==
    /\ pc = "sleep"
    /\ pc' = "loop"
    /\ retry_timer' = IF IsSome(retry_timer)
                      THEN Some(Min(Unwrap(retry_timer) + 1, SecondLen))
                      ELSE None
    /\ rendezvous_timer' = Min(rendezvous_timer + 1, Timeout * SecondLen)
    /\ wire' = Older(wire)
    /\ net_in' = Older(net_in)
    /\ last' = Step("sleep")
    /\ UNCHANGED <<connected, received_address, session_id, retries, should_stop,
                   rendezvous, client_rx, server_rx, sent, iter_after_stop, n_env>>
    /\ UNCHANGED <<lock, app_pc, app_vars>>

\* ------------------------------------------------ the application thread
\* The application thread makes one Client call at a time (app_pc = "idle"
\* between calls).
\* get_transmitter().send(payload): the TransferClient calls that queue a payload.
\* The worker reads the channel only in handle_app_message, so a send is placed
\* while that loop runs (taken in this iteration) or after it (taken in the next).
client_tx_send ==
    /\ n_env < MaxEnv
    /\ app_pc = "idle"
    /\ pc \in {"app", "sleep"}
    /\ \E payload \in AppPayloads(n_env) :
          /\ client_rx' = Append(client_rx, payload)
          /\ last' = [op |-> "client_tx_send", payload |-> payload]
    /\ n_env' = n_env + 1
    /\ UNCHANGED <<transfer, should_stop, rendezvous, rendezvous_timer, pc, server_rx,
                   wire, net_in, sent, iter_after_stop>>
    /\ UNCHANGED <<lock, app_pc, app_vars>>

\* mutant: stopping the session from the application also disconnects it
Client_stop_Disconnects ==
    /\ n_env < MaxEnv
    /\ app_pc = "idle"
    /\ should_stop' = TRUE
    /\ connected' = FALSE
    /\ app_pc' = "stop"
    /\ n_env' = n_env + 1
    /\ last' = Step("Client_stop")
    /\ UNCHANGED <<received_address, retry_timer, session_id, retries, rendezvous,
                   rendezvous_timer, pc, client_rx, server_rx, wire, net_in, sent,
                   iter_after_stop>>
    /\ UNCHANGED <<lock, app_vars>>

\* impl TransferClient for Client: stop, the store of the stop flag
Client_stop ==
    /\ n_env < MaxEnv
    /\ app_pc = "idle"
    /\ should_stop' = TRUE
    /\ app_pc' = "stop"
    /\ n_env' = n_env + 1
    /\ last' = Step("Client_stop")
    /\ UNCHANGED <<transfer, rendezvous, rendezvous_timer, pc, client_rx, server_rx, wire,
                   net_in, sent, iter_after_stop>>
    /\ UNCHANGED <<lock, app_vars>>

\* impl TransferClient for Client: stop, the try_send of Event::ConnectionLost
\* that follows the store
Client_stop_emit ==
    /\ app_pc = "stop"
    /\ app_pc' = "idle"
    /\ server_rx' = Append(server_rx, ConnectionLost(<<"Stopped.">>))
    /\ last' = Step("Client_stop_emit")
    /\ UNCHANGED <<transfer, should_stop, rendezvous, rendezvous_timer, pc, client_rx,
                   wire, net_in, sent, iter_after_stop, n_env>>
    /\ UNCHANGED <<lock, app_vars>>

\* impl TransferClient for Client: get_session_id is called.  With the Mutex
\* free the call locks it, clones the session id and unlocks it (nothing of
\* this is seen by the worker); with the Mutex held by the worker
\* transfer.lock() parks the application thread.
get_session_id ==
    /\ n_env < MaxEnv
    /\ app_pc = "idle"
    /\ app_pc' = IF lock = "free" THEN "idle" ELSE "get_session_id"
    /\ n_env' = n_env + 1
    /\ last' = [op |-> "get_session_id", waits |-> lock /= "free",
                value |-> IF lock = "free" THEN Some(session_id) ELSE None]
    /\ UNCHANGED <<transfer, should_stop, rendezvous, rendezvous_timer, pc, client_rx,
                   server_rx, wire, net_in, sent, iter_after_stop>>
    /\ UNCHANGED <<lock, app_vars>>

\* impl TransferClient for Client: get_session_id, the parked transfer.lock()
\* gets the Mutex once the worker has dropped its guard, and the call returns
get_session_id_return ==
    /\ app_pc = "get_session_id"
    /\ lock = "free"
    /\ app_pc' = "idle"
    /\ last' = [op |-> "get_session_id_return", waits |-> FALSE, value |-> Some(session_id)]
    /\ UNCHANGED <<transfer, should_stop, rendezvous, rendezvous_timer, pc, client_rx,
                   server_rx, wire, net_in, sent, iter_after_stop, n_env>>
    /\ UNCHANGED <<lock, app_vars>>

\* ------------------------------------------------------------ the network
\* a datagram reaches the socket.  The worker reads the socket only in
\* manual_poll, so an arrival is placed right before it or before the sleep that
\* precedes it.
deliver ==
    /\ n_env < MaxEnv
    /\ pc \in {"loop", "sleep"}
    /\ \E payload \in NetPayloads :
         \E addr \in (IF payload.type = "Handshake" THEN HandshakeAddrs ELSE {HostAddr}) :
            wire' = Append(wire, Packet(addr, payload, 0))
    /\ n_env' = n_env + 1
    /\ last' = Step("deliver")
    /\ UNCHANGED <<transfer, should_stop, rendezvous, rendezvous_timer, pc, client_rx,
                   server_rx, net_in, sent, iter_after_stop>>
    /\ UNCHANGED <<lock, app_pc, app_vars>>

\* the transport gives up on an address
connection_closed ==
    /\ n_env < MaxEnv
    /\ pc \in {"loop", "sleep"}
    /\ \E addr \in {RendezvousAddr, HostAddr} : wire' = Append(wire, Closed(addr, 0))
    /\ n_env' = n_env + 1
    /\ last' = Step("connection_closed")
    /\ UNCHANGED <<transfer, should_stop, rendezvous, rendezvous_timer, pc, client_rx,
                   server_rx, net_in, sent, iter_after_stop>>
    /\ UNCHANGED <<lock, app_pc, app_vars>>

\* ======================================================================
\* The application loop of main.rs: one record per peer
\* ======================================================================

\* --------------------------------------------------------- ClientManager
\* the registry: the known peers and the peers marked as holding control
ClientManager_new == [clients |-> <<>>, control |-> {}]

add_client(cm, name) ==
    [cm EXCEPT !.clients =
        [n \in DOMAIN cm.clients \cup {name} |->
            IF n = name THEN [is_server |-> FALSE, is_observer |-> FALSE]
            ELSE cm.clients[n]]]

remove_client(cm, name) ==
    [cm EXCEPT !.clients = [n \in DOMAIN cm.clients \ {name} |-> cm.clients[n]]]

set_server(cm, name, is_server) ==
    IF name \in DOMAIN cm.clients
    THEN [cm EXCEPT !.clients[name].is_server = is_server]
    ELSE cm

set_observer(cm, name, is_observer) ==
    IF name \in DOMAIN cm.clients
    THEN [cm EXCEPT !.clients[name].is_observer = is_observer]
    ELSE cm

is_observer(cm, name) == name \in DOMAIN cm.clients /\ cm.clients[name].is_observer

set_no_control(cm) == [cm EXCEPT !.control = {}]

\* clears any existing controller, then marks the new one
set_client_control(cm, name) == [set_no_control(cm) EXCEPT !.control = {name}]

client_has_control(cm, name) == name \in cm.control

get_client_in_control(cm) ==
    IF cm.control = {} THEN None ELSE Some(CHOOSE n \in cm.control : TRUE)

get_number_clients(cm) == Cardinality(DOMAIN cm.clients)

ClientManager_reset(cm) == ClientManager_new

\* ---------------------------------------------------------------- Control
take_control(a) == [a EXCEPT !.has_control = TRUE]
lose_control(a) == [a EXCEPT !.has_control = FALSE]

\* -------------------------------------------------- TransferClient calls
\* a payload handed to the transfer client (get_transmitter().send)
client_send(a, payload) == [a EXCEPT !.out = Append(@, payload)]

\* TransferClient::transfer_control(target)
transfer_control(a, target) == client_send(a, TransferControlMsg(a.name, target))
\* TransferClient::take_control(from)
client_take_control(a, from) == client_send(a, TransferControlMsg(from, a.name))
\* TransferClient::send_definitions(bytes, target)
send_definitions(a, target) == client_send(a, [type |-> "AircraftDefinition", to |-> target])
\* TransferClient::update(data, is_unreliable)
client_update(a) == client_send(a, [type |-> "Update", from |-> a.name])

\* TransferClient::send_ready()
send_ready(a) == client_send(a, Ready)
\* TransferClient::stop(reason), called by the application loop: the stop flag
\* of the session is set and ConnectionLost(reason) is put on the inbound
\* queue the loop itself drains
client_stop(a, reason) ==
    [a EXCEPT !.stopped = TRUE, !.pending = Append(@, ConnectionLost(reason))]

\* ------------------------------------------------------------ Definitions
\* Definitions::on_receive_data(conn, data, ..): whether the data is refused
GoodData == "good"
BadData == "bad"
on_receive_data_fails(data) == data = BadData

\* ------------------------------------------------------- payloads, events
InboundUpdate(f, d) == [type |-> "Update", from |-> f, data |-> d]
AircraftDefinitionMsg == [type |-> "AircraftDefinition"]
PlayerJoinedMsg(n, c, o, sv) ==
    [type |-> "PlayerJoined", name |-> n, in_control |-> c, is_observer |-> o,
     is_server |-> sv]
PlayerLeftMsg(n) == [type |-> "PlayerLeft", name |-> n]
SetObserverMsg(t, o) == [type |-> "SetObserver", to |-> t, is_observer |-> o]

\* ------------------------------------------- main: the inbound drain loop
\* mutant: the registry mark of the new controller is toggled
on_TransferControl_Toggle(a, from, to) ==
    IF to = a.name
    THEN [take_control(a) EXCEPT !.cm = set_no_control(@)]
    ELSE LET b == IF from = a.name THEN lose_control(a) ELSE a IN
         [b EXCEPT !.cm = IF client_has_control(@, to) THEN set_no_control(@)
                          ELSE set_client_control(@, to)]

\* mutant: the control token is kept when control is handed to another peer
on_TransferControl_KeepsToken(a, from, to) ==
    IF to = a.name
    THEN [take_control(a) EXCEPT !.cm = set_no_control(@)]
    ELSE [a EXCEPT !.cm = set_client_control(@, to)]

\* Payloads::TransferControl{from, to}
on_TransferControl(a, from, to) ==
    IF to = a.name
    THEN [take_control(a) EXCEPT !.cm = set_no_control(@)]
    ELSE LET b == IF from = a.name THEN lose_control(a) ELSE a IN
         [b EXCEPT !.cm = set_client_control(@, to)]

\* mutant: the joiner is marked in control beside the current controller
on_PlayerJoined_Marks(a, name, in_control, observer, server) ==
    LET b == [a EXCEPT !.cm = set_observer(set_server(add_client(@, name), name, server),
                                           name, observer)]
        c == IF b.is_host THEN send_definitions(b, name) ELSE b
    IN IF in_control THEN [c EXCEPT !.cm.control = @ \cup {name}] ELSE c

\* Payloads::PlayerJoined{name, in_control, is_observer, is_server}
on_PlayerJoined(a, name, in_control, observer, server) ==
    LET b == [a EXCEPT !.cm = set_observer(set_server(add_client(@, name), name, server),
                                           name, observer)]
        c == IF b.is_host THEN send_definitions(b, name) ELSE b
    IN IF in_control THEN [c EXCEPT !.cm = set_client_control(@, name)] ELSE c

\* mutant: updates of observers are passed to the simulator too
on_Update_Unfiltered(a, from, data) ==
    IF a.ready_to_process_data
    THEN LET b == [a EXCEPT !.synced = Append(@, [from |-> from, data |-> data,
                                                  interpolate |-> ~a.need_update])]
             c == IF on_receive_data_fails(data) THEN client_stop(b, <<"sync error">>) ELSE b
         IN [c EXCEPT !.need_update = FALSE]
    ELSE a

\* Payloads::Update{data, from, is_unreliable, time}
on_Update(a, from, data) ==
    IF ~is_observer(a.cm, from) /\ a.ready_to_process_data
    THEN LET b == [a EXCEPT !.synced = Append(@, [from |-> from, data |-> data,
                                                  interpolate |-> ~a.need_update])]
             c == IF on_receive_data_fails(data) THEN client_stop(b, <<"sync error">>) ELSE b
         IN [c EXCEPT !.need_update = FALSE]
    ELSE a

\* Payloads::AircraftDefinition{bytes}
on_AircraftDefinition(a) ==
    [a EXCEPT !.connection_time = Some(0),
              !.definition_age = IF IsSome(@) THEN @ ELSE Some(0)]

\* mutant: the host does not take control back from a peer that left
on_PlayerLeft_NoReclaim(a, name) ==
    LET b == [a EXCEPT !.cm = remove_client(@, name)] IN
    IF client_has_control(b.cm, name)
    THEN [b EXCEPT !.cm = set_no_control(@)]
    ELSE b

\* Payloads::Ready
on_Ready(a) == IF a.has_control THEN client_update(a) ELSE a

\* Payloads::PlayerLeft{name}
on_PlayerLeft(a, name) ==
    LET b == [a EXCEPT !.cm = remove_client(@, name)] IN
    IF client_has_control(b.cm, name)
    THEN LET c == [b EXCEPT !.cm = set_no_control(@)] IN
         IF c.is_host THEN transfer_control(take_control(c), c.name) ELSE c
    ELSE b

\* mutant: a peer set to observing lets go of control
on_SetObserver_Releases(a, to, observer) ==
    IF to = a.name
    THEN [(IF observer THEN lose_control(a) ELSE a) EXCEPT !.observing = observer]
    ELSE [a EXCEPT !.cm = set_observer(@, to, observer)]

\* Payloads::SetObserver{from, to, is_observer}
on_SetObserver(a, to, observer) ==
    IF to = a.name
    THEN [a EXCEPT !.observing = observer]
    ELSE [a EXCEPT !.cm = set_observer(@, to, observer)]

\* Event::ConnectionEstablished
on_ConnectionEstablished(a) ==
    LET b == IF a.is_host THEN [take_control(a) EXCEPT !.connection_time = Some(0)]
             ELSE [lose_control(a) EXCEPT !.observing = TRUE]
    IN [b EXCEPT !.need_update = TRUE]

\* mutant: a lost connection does not end the session of the application
on_ConnectionLost_Keeps(a) ==
    [take_control(a) EXCEPT !.cm = ClientManager_reset(@), !.observing = FALSE]

\* Event::ConnectionLost(reason)
on_ConnectionLost(a) ==
    [take_control(a) EXCEPT !.cm = ClientManager_reset(@), !.observing = FALSE,
                            !.should_set_none_client = TRUE]

\* Event::UnablePunchthrough
on_UnablePunchthrough(a) == a

\* match message { .. }: one message taken from client.get_next_message()
dispatch(a, m) ==
    IF m.kind = "Event"
    THEN CASE m.event = "ConnectionEstablished" -> on_ConnectionEstablished(a)
           [] m.event = "ConnectionLost" -> on_ConnectionLost(a)
           [] OTHER -> on_UnablePunchthrough(a)
    ELSE LET pl == m.payload IN
         CASE pl.type = "TransferControl" -> on_TransferControl(a, pl.from, pl.to)
           [] pl.type = "PlayerJoined" ->
                on_PlayerJoined(a, pl.name, pl.in_control, pl.is_observer, pl.is_server)
           [] pl.type = "PlayerLeft" -> on_PlayerLeft(a, pl.name)
           [] pl.type = "SetObserver" -> on_SetObserver(a, pl.to, pl.is_observer)
           [] pl.type = "Ready" -> on_Ready(a)
           [] pl.type = "Update" -> on_Update(a, pl.from, pl.data)
           [] pl.type = "AircraftDefinition" -> on_AircraftDefinition(a)
           [] OTHER -> a

\* mutant: a request that cannot be served stays pending
handle_control_transfer_requested_Keeps(a) ==
    IF a.control_transfer_requested /\ ~a.has_control /\ ~a.observing
          /\ IsSome(get_client_in_control(a.cm))
    THEN [client_take_control(take_control(a), Unwrap(get_client_in_control(a.cm)))
            EXCEPT !.control_transfer_requested = FALSE]
    ELSE a

\* Handle specific program triggered actions: definitions.control_transfer_requested
handle_control_transfer_requested(a) ==
    IF a.control_transfer_requested
    THEN LET b == IF ~a.has_control /\ ~a.observing
                       /\ IsSome(get_client_in_control(a.cm))
                   THEN client_take_control(take_control(a),
                                            Unwrap(get_client_in_control(a.cm)))
                   ELSE a
         IN [b EXCEPT !.control_transfer_requested = FALSE]
    ELSE a

\* mutant: a client tells the server it is ready each time the delay has
\* elapsed
handle_connection_delay_Resends(a) ==
    IF IsSome(a.connection_time) /\ Unwrap(a.connection_time) >= DelayLen
    THEN LET b == [a EXCEPT !.ready_to_process_data = TRUE] IN
         IF ~b.is_host THEN send_ready(b) ELSE b
    ELSE a

\* Handle initial connection delay: three seconds after connection_time the
\* session is marked ready and a client tells the server so.  The periodic
\* write_update_data sends what Definitions::get_need_sync returns, here
\* nothing.
handle_connection_delay(a) ==
    IF IsSome(a.connection_time) /\ Unwrap(a.connection_time) >= DelayLen
          /\ ~a.ready_to_process_data
    THEN LET b == [a EXCEPT !.ready_to_process_data = TRUE] IN
         IF ~b.is_host THEN send_ready(b) ELSE b
    ELSE a

\* if should_set_none_client { transfer_client = None; .. }
handle_should_set_none_client(a) ==
    IF a.should_set_none_client
    THEN [a EXCEPT !.active = FALSE, !.should_set_none_client = FALSE,
                   !.ready_to_process_data = FALSE, !.connection_time = None,
                   !.definition_age = None, !.disconnecting = FALSE]
    ELSE a

\* AppMessage::Disconnect
gui_Disconnect(a) ==
    IF a.active
    THEN [client_stop(a, <<"Stopped.">>) EXCEPT !.disconnecting = TRUE]
    ELSE a

\* AppMessage::TransferControl{target}
gui_TransferControl(a, target) == IF a.active THEN transfer_control(a, target) ELSE a

\* AppMessage::ForceTakeControl
gui_ForceTakeControl(a) ==
    IF a.active /\ IsSome(get_client_in_control(a.cm))
    THEN client_take_control(a, Unwrap(get_client_in_control(a.cm)))
    ELSE a

\* AppMessage::SetObserver{target, is_observer}
gui_SetObserver(a, target, observer) ==
    LET b == [a EXCEPT !.cm = set_observer(@, target, observer)] IN
    IF b.active THEN client_send(b, SetObserverMsg(target, observer)) ELSE b

\* AppMessage::StartServer / AppMessage::Connect: transfer_client = Some(..)
\* with a new Client or Server: its stop flag is false, its inbound queue empty
gui_Start(a, host) ==
    [a EXCEPT !.active = TRUE, !.is_host = host, !.stopped = FALSE, !.pending = <<>>,
              !.definition_age = None, !.disconnecting = FALSE]

\* match app_interface.get_next_message() { .. }
gui(a, g) ==
    CASE g.type = "TransferControl" -> gui_TransferControl(a, g.target)
      [] g.type = "ForceTakeControl" -> gui_ForceTakeControl(a)
      [] g.type = "SetObserver" -> gui_SetObserver(a, g.target, g.is_observer)
      [] g.type = "StartServer" -> gui_Start(a, TRUE)
      [] g.type = "Connect" -> gui_Start(a, FALSE)
      [] g.type = "Disconnect" -> gui_Disconnect(a)
      [] OTHER -> a

\* the sleep that ends a turn of main's loop: the Instants kept grow older
pass_time(a) ==
    [a EXCEPT !.connection_time = IF IsSome(@) THEN Some(Min(Unwrap(@) + 1, DelayLen)) ELSE @,
              !.definition_age = IF IsSome(@) THEN Some(Min(Unwrap(@) + 1, DelayLen)) ELSE @]

\* one turn of main's loop after the inbound queue is drained
main_loop(a, g) ==
    pass_time(handle_should_set_none_client(
        gui(IF a.active
            THEN handle_connection_delay(handle_control_transfer_requested(a))
            ELSE a, g)))

\* ------------------------------------------------------------- the peers
Peers == {"A", "B", "C"}
Others(p) == Peers \ {p}
NoGui == [type |-> "None"]

\* the state main() sets up before its loop, with no session
main_new(p) ==
    [name |-> p, active |-> FALSE, is_host |-> FALSE, has_control |-> FALSE,
     observing |-> FALSE, control_transfer_requested |-> FALSE,
     should_set_none_client |-> FALSE, cm |-> ClientManager_new, out |-> <<>>,
     need_update |-> FALSE, ready_to_process_data |-> FALSE, connection_time |-> None,
     \* the Client: its stop flag, what its stop() has put on the inbound queue
     stopped |-> FALSE, pending |-> <<>>,
     \* history: what was passed to the simulator, the time since the first
     \* AircraftDefinition of this session, a Disconnect not yet carried out
     synced |-> <<>>, definition_age |-> None, disconnecting |-> FALSE]

\* what a peer can find in its inbound queue
Inbound(p) ==
    {Payload(TransferControlMsg(f, t)) : f \in Peers, t \in Peers}
        \cup {Payload(PlayerJoinedMsg(n, c, o, FALSE)) :
                n \in Others(p), c \in BOOLEAN, o \in BOOLEAN}
        \cup {Payload(PlayerLeftMsg(n)) : n \in Others(p)}
        \cup {Payload(SetObserverMsg(t, o)) : t \in Peers, o \in BOOLEAN}
        \cup {Payload(InboundUpdate(f, d)) : f \in Others(p), d \in {GoodData, BadData}}
        \cup {Payload(Ready), Payload(AircraftDefinitionMsg), ConnectionEstablished,
              ConnectionLost(<<"Stopped.">>), UnablePunchthrough}

\* what the user can ask of a peer
GuiMessages(p) ==
    {[type |-> "TransferControl", target |-> t] : t \in Others(p)}
        \cup {[type |-> "ForceTakeControl"], [type |-> "StartServer"], [type |-> "Connect"],
              [type |-> "Disconnect"]}
        \cup {[type |-> "SetObserver", target |-> t, is_observer |-> o] :
                t \in Others(p), o \in BOOLEAN}

\* ======================================================================
\* Specifications
\* ======================================================================
\* no application loop has a session
app_idle ==
    /\ app = [p \in Peers |-> main_new(p)]
    /\ relay = <<>>
    /\ app_last = Step("start")
    /\ n_in = 0

\* ---- Spec: one client session, its network and its application thread
Init == (start \/ start_with_hole_punch) /\ app_idle

Worker ==
    \/ manual_poll
    \/ recv_message
    \/ recv_closed
    \/ recv_timeout
    \/ check_rendezvous_timer
    \/ handle_handshake
    \/ handle_handshake_emit
    \/ handle_app_message
    \/ check_should_stop
    \/ sleep

\* the Client calls of the application thread
Caller ==
    \/ client_tx_send
    \/ Client_stop
    \/ Client_stop_emit
    \/ get_session_id
    \/ get_session_id_return

Next ==
    \/ Worker
    \/ Caller
    \/ deliver
    \/ connection_closed

Spec == Init /\ [][Next]_vars

\* the worker thread is scheduled again and again, and a call of Client::stop
\* that has begun runs to its end
FairSpec == Spec /\ WF_vars(Worker) /\ WF_vars(Client_stop_emit)

\* ---- the application loop of a peer
\* one message taken from the inbound queue while transfer_client is Some
app_recv(p) ==
    /\ app[p].active
    /\ n_in < MaxIn
    /\ \E m \in Inbound(p) :
          /\ app' = [app EXCEPT ![p] = dispatch(@, m)]
          /\ app_last' = [op |-> "recv", peer |-> p, msg |-> m,
                          again |-> (app_last.op = "recv" /\ app_last.msg = m)]
    /\ n_in' = n_in + 1
    /\ UNCHANGED <<relay, session_vars>>

\* one message taken from the inbound queue: an event the loop's own call of
\* client.stop has put there
app_recv_pending(p) ==
    /\ app[p].active
    /\ app[p].pending /= <<>>
    /\ app' = [app EXCEPT ![p] = dispatch([@ EXCEPT !.pending = Tail(@)],
                                           Head(app[p].pending))]
    /\ app_last' = [op |-> "recv", peer |-> p, msg |-> Head(app[p].pending), again |-> FALSE]
    /\ UNCHANGED <<n_in, relay, session_vars>>

\* the simulator asks for control: definitions.control_transfer_requested is set
app_request_control(p) ==
    /\ app[p].active
    /\ ~app[p].control_transfer_requested
    /\ n_in < MaxIn
    /\ app' = [app EXCEPT ![p].control_transfer_requested = TRUE]
    /\ app_last' = [op |-> "request_control", peer |-> p]
    /\ n_in' = n_in + 1
    /\ UNCHANGED <<relay, session_vars>>

\* the rest of the turn of main's loop, with the user's request if there is one
\* (the drain loop has emptied the inbound queue)
app_tick(p, requests) ==
    /\ app[p].active => app[p].pending = <<>>
    /\ \E g \in requests \cup {NoGui} :
          /\ g /= NoGui => n_in < MaxIn
          /\ app' = [app EXCEPT ![p] = main_loop(@, g)]
          /\ app_last' = [op |-> "tick", peer |-> p, gui |-> g]
          /\ n_in' = IF g /= NoGui THEN n_in + 1 ELSE n_in
    /\ UNCHANGED <<relay, session_vars>>

\* ---- SpecApp: the application loop of one peer, fed any inbound messages
LocalPeer == "A"

InitApp ==
    /\ start
    /\ \E host \in BOOLEAN :
          app = [p \in Peers |-> IF p = LocalPeer THEN gui_Start(main_new(p), host)
                                 ELSE main_new(p)]
    /\ relay = <<>>
    /\ app_last = Step("start")
    /\ n_in = 0

NextApp ==
    \/ app_recv(LocalPeer)
    \/ app_recv_pending(LocalPeer)
    \/ app_request_control(LocalPeer)
    \/ app_tick(LocalPeer, GuiMessages(LocalPeer))

SpecApp == InitApp /\ [][NextApp]_vars

\* ---- SpecSession: the application loop of one peer reading the inbound
\* queue of its client session; n_in counts the messages it has taken
InitSession ==
    /\ (start \/ start_with_hole_punch)
    /\ app = [p \in Peers |-> IF p = LocalPeer THEN gui_Start(main_new(p), FALSE)
                              ELSE main_new(p)]
    /\ relay = <<>>
    /\ app_last = Step("start")
    /\ n_in = 0

\* client.get_next_message(): the oldest message of server_rx not yet taken
session_recv ==
    /\ app[LocalPeer].active
    /\ n_in < Len(server_rx)
    /\ app' = [app EXCEPT ![LocalPeer] = dispatch(@, server_rx[n_in + 1])]
    /\ app_last' = [op |-> "recv", peer |-> LocalPeer, msg |-> server_rx[n_in + 1],
                    again |-> FALSE]
    /\ n_in' = n_in + 1
    /\ UNCHANGED <<relay, session_vars>>

\* the rest of the turn of main's loop once the drain loop has found the
\* queue empty; the user asks for nothing
session_tick ==
    /\ app[LocalPeer].active => n_in = Len(server_rx)
    /\ app' = [app EXCEPT ![LocalPeer] = main_loop(@, NoGui)]
    /\ app_last' = [op |-> "tick", peer |-> LocalPeer, gui |-> NoGui]
    /\ UNCHANGED <<n_in, relay, session_vars>>

NextSession ==
    \/ Worker
    \/ deliver
    \/ connection_closed
    \/ session_recv
    \/ session_tick

\* both threads are scheduled again and again
SpecSession ==
    /\ InitSession
    /\ [][NextSession]_vars
    /\ WF_vars(Worker)
    /\ WF_vars(session_recv)
    /\ WF_vars(session_tick)

\* ---- SpecPeers: three peers of one session; the server relays every
\* TransferControl request to all of them, in the order it took them
HostPeer == "A"

\* a peer that has joined the session: the host flies, the others follow
joined(p) ==
    LET a0 == on_ConnectionEstablished(gui_Start(main_new(p), p = HostPeer))
        a1 == on_SetObserver(a0, p, FALSE)
        others == Others(p)
        n1 == CHOOSE n \in others : TRUE
        n2 == CHOOSE n \in others \ {n1} : TRUE
        a2 == on_PlayerJoined(a1, n1, p /= HostPeer /\ n1 = HostPeer, FALSE, n1 = HostPeer)
        a3 == on_PlayerJoined(a2, n2, p /= HostPeer /\ n2 = HostPeer, FALSE, n2 = HostPeer)
    IN [a3 EXCEPT !.out = <<>>]

InitPeers ==
    /\ start
    /\ app = [p \in Peers |-> joined(p)]
    /\ relay = <<>>
    /\ app_last = Step("start")
    /\ n_in = 0

PeerRequests(p) ==
    {[type |-> "TransferControl", target |-> t] : t \in Others(p)}
        \cup {[type |-> "ForceTakeControl"]}

\* the transfer client of p hands its queued requests to the server
transmit(p) ==
    /\ app[p].out /= <<>>
    /\ relay' = relay \o app[p].out
    /\ app' = [app EXCEPT ![p].out = <<>>]
    /\ app_last' = [op |-> "transmit", peer |-> p]
    /\ UNCHANGED <<n_in, session_vars>>

\* the server relays the oldest request; every peer, the sender too, takes
\* it from its inbound queue
relay_deliver ==
    /\ relay /= <<>>
    /\ app' = [p \in Peers |-> dispatch(app[p], Payload(Head(relay)))]
    /\ relay' = Tail(relay)
    /\ app_last' = [op |-> "relay", msg |-> Head(relay)]
    /\ UNCHANGED <<n_in, session_vars>>

NextPeers ==
    \/ \E p \in Peers : app_request_control(p)
    \/ \E p \in Peers : app_tick(p, PeerRequests(p))
    \/ \E p \in Peers : transmit(p)
    \/ relay_deliver

SpecPeers == InitPeers /\ [][NextPeers]_vars

\* ------------------------------------------------------------- properties
Count(q, x) == Cardinality({i \in DOMAIN q : q[i] = x})
Contains(reason, piece) == \E i \in DOMAIN reason : reason[i] = piece
IsConnectionLost(m) == m.kind = "Event" /\ m.event = "ConnectionLost"
\* the step just taken handled a datagram of this type
Handled(l, type) == l.op = "handle_message" /\ l.payload.type = type

\* the worker loop has made MAX_PUNCH_RETRIES attempts and no matching
\* Handshake was accepted
Exhausted == ~connected /\ retries = MAX_PUNCH_RETRIES /\ pc /= "emit"

\* C1: once the worker loop has sent MAX_PUNCH_RETRIES Handshakes without a
\* matching Handshake arriving, exactly one UnablePunchthrough has been
\* emitted, the stop flag is set and the worker sends no further datagram.
C1_NoSendAfterExhaustion ==
    /\ [](Exhausted => should_stop /\ Count(server_rx, UnablePunchthrough) = 1)
    /\ [][Exhausted => sent' = sent]_vars

\* C2: a Handshake with another session id, handled while connected = false,
\* leaves connected false, sets the stop flag and enqueues only a
\* ConnectionLost whose reason holds the expected and the received id; no
\* InitHandshake is sent and no ConnectionEstablished is emitted.
C2_MismatchStops ==
    [][(Handled(last', "Handshake") /\ ~connected
            /\ last'.payload.session_id /= session_id)
        => /\ ~connected'
           /\ should_stop'
           /\ sent' = sent
           /\ Len(server_rx') = Len(server_rx) + 1
           /\ LET m == server_rx'[Len(server_rx')] IN
                /\ IsConnectionLost(m)
                /\ \E i, j \in DOMAIN m.reason :
                      /\ i /= j
                      /\ m.reason[i] = session_id
                      /\ m.reason[j] = last'.payload.session_id]_vars

C2_Witness ==
    /\ Handled(last, "Handshake")
    /\ ~last.connected
    /\ last.payload.session_id /= session_id
    /\ should_stop
    /\ ~connected
    /\ server_rx /= <<>>
    /\ IsConnectionLost(server_rx[Len(server_rx)])
    /\ Contains(server_rx[Len(server_rx)].reason, HostedSessionId)

\* C3: in a direct session a Handshake echoed with the empty session id is
\* handled at most one second after it reached the socket, and handling it
\* sets connected, sends InitHandshake with the name and the version to the
\* sender and emits ConnectionEstablished.
C3_DirectHandshakeConnects ==
    [][(Handled(last', "Handshake") /\ rendezvous = None /\ ~connected
            /\ last'.payload.session_id = BlankSessionId)
        => /\ connected'
           /\ sent' = Append(sent, [to |-> last'.addr,
                                    payload |-> InitHandshake(UserName, AppVersion)])
           /\ Count(server_rx', ConnectionEstablished) = 1 + Count(server_rx, ConnectionEstablished)
           /\ last'.age <= SecondLen]_vars

C3_Witness ==
    /\ Handled(last, "Handshake")
    /\ ~last.connected
    /\ rendezvous = None
    /\ last.payload.session_id = BlankSessionId
    /\ connected
    /\ sent[Len(sent)].payload.type = "InitHandshake"

\* C6: a Handshake handled while connected = true changes nothing of the
\* session, sends nothing and enqueues nothing.
C6_HandshakeIgnoredWhenConnected ==
    [][(Handled(last', "Handshake") /\ connected)
        => UNCHANGED <<connected, received_address, retry_timer, session_id, retries,
                       should_stop, sent, server_rx>>]_vars

C6_Witness ==
    /\ Handled(last, "Handshake")
    /\ last.connected
    /\ last.payload.session_id /= session_id
    /\ last.addr = StrangerAddr
    /\ connected
    /\ ~should_stop

\* C9: the stop flag starts false and, once true, never becomes false again.
C9_StopFlagMonotonic ==
    /\ should_stop = FALSE
    /\ [][should_stop => should_stop']_vars

C9_Witness ==
    /\ should_stop
    /\ Handled(last, "Handshake")
    /\ ~last.connected
    /\ connected

\* C10: once the stop flag is set the worker begins at most one more
\* iteration, leaves the loop, and never runs again.
C10_WorkerExitsAfterStop ==
    /\ [](iter_after_stop <= 1)
    /\ [][pc = "done" => pc' = "done"]_vars
    /\ (should_stop ~> pc = "done")

C10_Witness ==
    /\ iter_after_stop = 1
    /\ pc = "done"

\* the step just taken by an application loop took this payload from its
\* inbound queue
Took(l, type) == l.op = "recv" /\ l.msg.kind = "Payload" /\ l.msg.payload.type = type

\* C4: whatever PlayerJoined and PlayerLeft messages (and any others) the
\* application loop has processed, its registry marks at most one peer as
\* holding control.
C4_AtMostOneController ==
    \A p \in Peers : Cardinality(app[p].cm.control) <= 1

C4_Witness ==
    /\ Took(app_last, "PlayerJoined")
    /\ app_last.msg.payload.in_control
    /\ app_last.msg.payload.name = "C"
    /\ DOMAIN app[LocalPeer].cm.clients = {"B", "C"}
    /\ app[LocalPeer].cm.control = {"C"}
    /\ \E i \in DOMAIN app[LocalPeer].out : app[LocalPeer].out[i].type = "AircraftDefinition"

\* C5: processing the same TransferControl{from, to} a second time, right
\* after the first, leaves the registry as the first left it.
C5_TransferControlIdempotent ==
    [][(Took(app_last', "TransferControl") /\ app_last'.again)
        => app'[app_last'.peer].cm = app[app_last'.peer].cm]_vars

C5_Witness ==
    /\ Took(app_last, "TransferControl")
    /\ app_last.again
    /\ app_last.msg.payload.from = LocalPeer
    /\ app_last.msg.payload.to = "B"
    /\ app[LocalPeer].cm.control = {"B"}
    /\ "B" \in DOMAIN app[LocalPeer].cm.clients

\* the peer that a peer takes to be the controller: itself if its control
\* token is set, else the controller its registry names
View(a) == IF a.has_control THEN Some(a.name) ELSE get_client_in_control(a.cm)

\* C7: at no peer is the local control token set while the registry names
\* another peer as the controller.
C7_TokenExcludesOtherController ==
    \A p \in Peers : ~(app[p].has_control /\ app[p].cm.control \ {p} /= {})

\* C8: when the peers have processed a TransferControl, each of them takes
\* its `to` to be the controller.
C8_PeersAgreeOnController ==
    [][app_last'.op = "relay"
        => \A p \in Peers : View(app'[p]) = Some(app_last'.msg.to)]_vars

\* a terminal event: Event::ConnectionLost or Event::UnablePunchthrough
IsTerminal(m) == m.kind = "Event" /\ m.event \in {"ConnectionLost", "UnablePunchthrough"}
TerminalEnqueued == \E i \in DOMAIN server_rx : IsTerminal(server_rx[i])

\* C11: whenever the stop flag is true a terminal event (ConnectionLost or
\* UnablePunchthrough) has already been enqueued on the inbound queue.
C11_TerminalEventBeforeStopFlag == should_stop => TerminalEnqueued

\* C12: the application thread is never parked in a Client call: a call of
\* get_session_id never finds the Mutex held by the worker.
C12_CallerNeverWaits == ~(app_pc = "get_session_id" /\ lock = "worker")

\* C13: connected, received_address, retries and retry_timer are changed by
\* steps of the worker thread only: every step of the application thread
\* (queueing a payload, get_session_id, stop) and of the network leaves the
\* four unchanged.
C13_CallerLeavesSessionFields ==
    [][(Caller \/ deliver \/ connection_closed)
        => UNCHANGED <<connected, received_address, retries, retry_timer>>]_vars

C13_Witness ==
    /\ last.op = "Client_stop"
    /\ connected
    /\ IsSome(received_address)
    /\ IsSome(retry_timer)
    /\ retries > 0

\* the session has converged: connected with a resolved peer address, or
\* stopped with a terminal event enqueued
Converged ==
    \/ connected /\ IsSome(received_address)
    \/ should_stop /\ TerminalEnqueued

\* C14: with the worker scheduled again and again (time advances with its
\* sleeps), every started session, direct or rendezvous, eventually is
\* connected with a resolved peer address or is stopped with a terminal event
\* enqueued.
C14_SessionConverges == <>Converged

C14_Witness ==
    /\ IsSome(rendezvous)
    /\ connected
    /\ IsSome(received_address)
    /\ ~should_stop
    /\ last.op = "sleep"

\* C15: in every reachable state connected = true implies that the peer
\* address is resolved.
C15_ConnectedImpliesResolved == connected => IsSome(received_address)

CouldNotConnect == ConnectionLost(<<"Could not connect to session.">>)
NoMessageReceived == ConnectionLost(<<"No message received from server.">>)

\* C16: ConnectionLost("Could not connect to session.") is enqueued, with the
\* stop flag set, by exactly the timer checks made with a rendezvous in use,
\* no peer address resolved and at least Timeout seconds elapsed since the
\* session started; no other step enqueues it.
C16_RendezvousTimeout ==
    [][/\ (Count(server_rx', CouldNotConnect) > Count(server_rx, CouldNotConnect))
            <=> (/\ pc = "timer"
                 /\ pc' /= "timer"
                 /\ IsSome(rendezvous)
                 /\ received_address = None
                 /\ rendezvous_timer >= Timeout * SecondLen)
       /\ (Count(server_rx', CouldNotConnect) > Count(server_rx, CouldNotConnect))
            => should_stop']_vars

C16_Witness ==
    /\ last.op = "rendezvous_timeout"
    /\ IsSome(rendezvous)
    /\ received_address = None
    /\ rendezvous_timer >= Timeout * SecondLen
    /\ should_stop
    /\ server_rx[Len(server_rx)] = CouldNotConnect

\* C17: handling ConnectionClosed(addr) stops the session with
\* ConnectionLost("No message received from server.") if no rendezvous is in
\* use or addr is not the rendezvous address, and changes nothing (stop flag,
\* inbound queue, session fields) if addr is the rendezvous address.
C17_ConnectionClosed ==
    [][last'.op = "ConnectionClosed"
        => IF rendezvous = None \/ Unwrap(rendezvous) /= last'.addr
           THEN /\ should_stop'
                /\ server_rx' = Append(server_rx, NoMessageReceived)
           ELSE UNCHANGED <<should_stop, server_rx, transfer, sent, pc>>]_vars

C17_Witness ==
    /\ last.op = "ConnectionClosed"
    /\ last.addr = RendezvousAddr
    /\ rendezvous = Some(RendezvousAddr)
    /\ ~should_stop
    /\ server_rx = <<>>

\* the datagrams sent that carry a payload queued by the application
IsAppPayload(p) == p.type = "Update"

\* C18: a payload taken from the outbound queue is sent once to the resolved
\* peer address or, with no address resolved, discarded; a payload is sent
\* only by the step that takes it from the queue, so a discarded payload is
\* not sent later and no payload is sent twice; the drain of an iteration
\* ends with the queue empty.
C18_OutboundAtMostOnce ==
    /\ [][last'.op = "handle_app_message"
            => /\ client_rx' = Tail(client_rx)
               /\ sent' = IF IsSome(received_address)
                          THEN Append(sent, [to |-> Unwrap(received_address),
                                             payload |-> Head(client_rx)])
                          ELSE sent]_vars
    /\ [][\A i \in DOMAIN sent' :
            (i > Len(sent) /\ IsAppPayload(sent'[i].payload))
                => (last'.op = "handle_app_message" /\ sent'[i].payload = Head(client_rx))]_vars
    /\ [][last'.op = "handle_app_message_end" => client_rx' = <<>>]_vars
    /\ [](\A i, j \in DOMAIN sent :
            (i /= j /\ IsAppPayload(sent[i].payload)) => sent[i].payload /= sent[j].payload)
    /\ [](\A i \in DOMAIN sent : \A j \in DOMAIN client_rx : sent[i].payload /= client_rx[j])

C18_Witness ==
    /\ last.op = "handle_app_message_end"
    /\ client_rx = <<>>
    /\ Cardinality({i \in DOMAIN sent : IsAppPayload(sent[i].payload)}) = 2
    /\ \A i \in DOMAIN sent : sent[i].to = HostAddr

\* the ConnectionLost events enqueued by a step
NewConnectionLost(before, after) ==
    SelectSeq(SubSeq(after, Len(before) + 1, Len(after)), IsConnectionLost)

\* C19: handling InvalidVersion{server_version} or InvalidName sets the stop
\* flag, enqueues one ConnectionLost whose reason names the server's version,
\* respectively the client's own name, and leaves connected and the peer
\* address unchanged.
C19_InvalidVersionOrNameStops ==
    [][(Handled(last', "InvalidVersion") \/ Handled(last', "InvalidName"))
        => /\ should_stop'
           /\ UNCHANGED <<connected, received_address>>
           /\ Len(NewConnectionLost(server_rx, server_rx')) = 1
           /\ Contains(NewConnectionLost(server_rx, server_rx')[1].reason,
                       IF last'.payload.type = "InvalidVersion"
                       THEN last'.payload.server_version
                       ELSE UserName)]_vars

C19_Witness ==
    /\ Handled(last, "InvalidName")
    /\ last.connected
    /\ connected
    /\ should_stop
    /\ Count(server_rx, ConnectionLost(InvalidNameReason(UserName))) = 1

Ticked(l) == l.op = "tick"

C22_UpdateFiltered ==
    [][Took(app_last', "Update")
        => LET m == app_last'.msg.payload
               a == app[app_last'.peer]
               b == app'[app_last'.peer]
           IN IF ~is_observer(a.cm, m.from) /\ a.ready_to_process_data
              THEN /\ Len(b.synced) = Len(a.synced) + 1
                   /\ b.synced[Len(b.synced)].data = m.data
                   /\ ~b.need_update
              ELSE b = a]_vars

C22_Witness ==
    /\ Took(app_last, "Update")
    /\ is_observer(app[LocalPeer].cm, app_last.msg.payload.from)
    /\ app[LocalPeer].ready_to_process_data
    /\ app[LocalPeer].need_update
    /\ app[LocalPeer].synced = <<>>

\* C23: a session that is not the host is ready to exchange live state only
\* if an AircraftDefinition was received in it at least three seconds ago.
C23_ReadyAfterDefinitionDelay ==
    \A p \in Peers :
        (app[p].active /\ ~app[p].is_host /\ app[p].ready_to_process_data)
            => (IsSome(app[p].definition_age) /\ Unwrap(app[p].definition_age) >= DelayLen)

\* C24: the local control token changes value only while processing a
\* TransferControl or a local control request; processing any other inbound
\* message or event leaves it unchanged.
C24_TokenChangesOnlyOnTransfer ==
    [][/\ (app_last'.op = "recv" /\ ~Took(app_last', "TransferControl"))
            => app'[app_last'.peer].has_control = app[app_last'.peer].has_control
       /\ Ticked(app_last')
            => \/ app'[app_last'.peer].has_control = app[app_last'.peer].has_control
               \/ app[app_last'.peer].control_transfer_requested]_vars

\* C24, amended: the local control token changes value only while processing
\* a TransferControl, a locally initiated control request, ConnectionEstablished
\* (set at the host, cleared at a client), ConnectionLost (set) or, at the
\* host, the PlayerLeft of the registry's controller (set); processing
\* PlayerJoined, SetObserver, Update, Ready, AircraftDefinition or
\* UnablePunchthrough leaves it unchanged.
C24_TokenFrame ==
    [][/\ app_last'.op = "recv"
            => LET m == app_last'.msg
                   a == app[app_last'.peer]
                   b == app'[app_last'.peer]
               IN CASE Took(app_last', "TransferControl") -> TRUE
                    [] Took(app_last', "PlayerLeft") ->
                          \/ b.has_control = a.has_control
                          \/ /\ a.is_host
                             /\ client_has_control(a.cm, m.payload.name)
                             /\ b.has_control
                    [] m = ConnectionEstablished -> b.has_control = a.is_host
                    [] IsConnectionLost(m) -> b.has_control
                    [] OTHER -> b.has_control = a.has_control
       /\ Ticked(app_last')
            => \/ app'[app_last'.peer].has_control = app[app_last'.peer].has_control
               \/ app[app_last'.peer].control_transfer_requested]_vars

C24_Witness ==
    /\ app_last.op = "recv"
    /\ IsConnectionLost(app_last.msg)
    /\ ~app[LocalPeer].is_host
    /\ app[LocalPeer].has_control
    /\ app[LocalPeer].should_set_none_client
    /\ app[LocalPeer].cm = ClientManager_new
    /\ IsSome(app[LocalPeer].definition_age)

\* C25: while a session is active the local observer flag and the local
\* control token are never both true.
C25_ObserverNeverControls ==
    \A p \in Peers : app[p].active => ~(app[p].observing /\ app[p].has_control)

\* C27: a turn of the loop with an active session ends with
\* control_transfer_requested false; the pending request makes the peer take
\* control (token set, take_control request sent) exactly if the peer does not
\* hold control, is not observing and the registry names a controller.
C27_ControlRequestConsumed ==
    [][Ticked(app_last')
        => LET a == app[app_last'.peer]
               b == app'[app_last'.peer]
               served == /\ a.active
                         /\ a.control_transfer_requested
                         /\ ~a.has_control
                         /\ ~a.observing
                         /\ IsSome(get_client_in_control(a.cm))
           IN /\ (a.active \/ b.active) => ~b.control_transfer_requested
              /\ served
                    => /\ b.has_control
                       /\ Len(b.out) > Len(a.out)
                       /\ b.out[Len(a.out) + 1]
                            = TransferControlMsg(Unwrap(get_client_in_control(a.cm)), a.name)
              /\ ~served
                    => /\ b.has_control = a.has_control
                       /\ app_last'.gui = NoGui
                            => \A i \in DOMAIN b.out :
                                  i > Len(a.out) => b.out[i].type /= "TransferControl"]_vars

C27_Witness ==
    /\ Ticked(app_last)
    /\ app_last.gui = NoGui
    /\ app[LocalPeer].active
    /\ app[LocalPeer].has_control
    /\ ~app[LocalPeer].control_transfer_requested
    /\ app[LocalPeer].cm.control = {"B"}
    /\ app[LocalPeer].out = <<TransferControlMsg("B", LocalPeer)>>

\* C28: a turn of the loop that takes a Disconnect request with a session
\* active sets the stop flag and enqueues ConnectionLost("Stopped."); the next
\* turn ends with the session torn down: transfer_client None,
\* ready_to_process_data false, connection_time cleared.
C28_DisconnectTearsDown ==
    [][Ticked(app_last')
        => LET a == app[app_last'.peer]
               b == app'[app_last'.peer]
           IN /\ (a.active /\ app_last'.gui = [type |-> "Disconnect"])
                    => /\ b.stopped
                       /\ Contains(b.pending, ConnectionLost(<<"Stopped.">>))
              /\ a.disconnecting
                    => /\ ~b.active
                       /\ ~b.ready_to_process_data
                       /\ b.connection_time = None]_vars

C28_Witness ==
    /\ Ticked(app_last)
    /\ app_last.gui = NoGui
    /\ ~app[LocalPeer].active
    /\ app[LocalPeer].stopped
    /\ app[LocalPeer].synced /= <<>>
    /\ app[LocalPeer].pending = <<>>
    /\ ~app[LocalPeer].ready_to_process_data
    /\ app[LocalPeer].connection_time = None
    /\ \A i \in DOMAIN app[LocalPeer].synced : app[LocalPeer].synced[i].data = GoodData

\* the Handshake datagrams the worker loop has sent: every Handshake but the
\* first datagram, which start / start_with_hole_punch sends before run
LoopHandshakes == {i \in 2..Len(sent) : sent[i].payload.type = "Handshake"}

\* C26: the retry counter equals the number of Handshake datagrams the worker
\* loop has sent and never exceeds MAX_PUNCH_RETRIES, and the loop sends a
\* Handshake only to the resolved peer address and only while not connected.
C26_RetriesCountHandshakes ==
    /\ [](retries = Cardinality(LoopHandshakes) /\ retries <= MAX_PUNCH_RETRIES)
    /\ [][\A i \in (Len(sent) + 1)..Len(sent') :
            sent'[i].payload.type = "Handshake"
                => /\ ~connected
                   /\ IsSome(received_address)
                   /\ sent'[i].to = Unwrap(received_address)
                   /\ retries' = retries + 1]_vars

C26_Witness ==
    /\ retries = MAX_PUNCH_RETRIES
    /\ Cardinality(LoopHandshakes) = MAX_PUNCH_RETRIES
    /\ IsSome(rendezvous)
    /\ ~connected
    /\ \A i \in LoopHandshakes : sent[i].to = HostAddr

\* C30: over its lifetime a session enqueues at most one terminal event
\* (ConnectionLost or UnablePunchthrough) on the inbound queue, and no
\* ConnectionEstablished after a terminal event.
C30_OneTerminalEvent ==
    /\ Cardinality({i \in DOMAIN server_rx : IsTerminal(server_rx[i])}) <= 1
    /\ \A i, j \in DOMAIN server_rx :
            (i < j /\ IsTerminal(server_rx[i]))
                => ~(server_rx[j].kind = "Event" /\ server_rx[j].event = "ConnectionEstablished")

\* C29: whenever the worker thread of a session has exited, whatever the
\* cause, the application loop eventually drops the session (transfer_client
\* becomes None) without any further user action.
C29_WorkerExitLeadsToDrop ==
    (pc = "done") ~> ~app[LocalPeer].active

\* the InitHandshake datagrams sent so far
InitHandshakes(q) == {i \in DOMAIN q : q[i].payload.type = "InitHandshake"}

\* C31: connected never changes from true back to false; the worker sends
\* InitHandshake at most once and emits ConnectionEstablished at most once,
\* both exactly at the step where connected turns true.
C31_ConnectedOnce ==
    /\ [](/\ Cardinality(InitHandshakes(sent)) <= 1
          /\ Count(server_rx, ConnectionEstablished) <= 1)
    /\ [][/\ connected => connected'
          /\ Cardinality(InitHandshakes(sent')) - Cardinality(InitHandshakes(sent))
                = (IF ~connected /\ connected' THEN 1 ELSE 0)
          /\ Count(server_rx', ConnectionEstablished) - Count(server_rx, ConnectionEstablished)
                = (IF ~connected /\ connected' THEN 1 ELSE 0)]_vars

\* a matching Handshake has been handled in a session already connected
C31_Witness ==
    /\ last.op = "handle_message"
    /\ last.payload = Handshake(session_id)
    /\ last.connected
    /\ connected
    /\ Cardinality(InitHandshakes(sent)) = 1
    /\ Count(server_rx, ConnectionEstablished) = 1

\* C32: once the session is connected its resolved peer address never
\* changes, and every application payload sent afterwards goes to the address
\* the accepted Handshake came from (the one InitHandshake was sent to).
C32_PeerAddressFixed ==
    [][connected
        => /\ received_address' = received_address
           /\ \A i \in (Len(sent) + 1)..Len(sent') :
                 IsAppPayload(sent'[i].payload)
                    => \A k \in InitHandshakes(sent) : sent'[i].to = sent[k].to]_vars

\* C33: a turn of the loop in which a ConnectionLost was processed ends with
\* the session fully reset: transfer_client None, the registry empty with no
\* controller, observing false, ready_to_process_data false and the control
\* token true, whatever was queued behind the ConnectionLost.
C33_ConnectionLostResets ==
    [][(Ticked(app_last') /\ app[app_last'.peer].should_set_none_client)
        => LET b == app'[app_last'.peer]
           IN /\ ~b.active
              /\ b.cm = ClientManager_new
              /\ ~b.observing
              /\ ~b.ready_to_process_data
              /\ b.has_control]_vars

\* C34: a peer that is not the host sends Ready at most once per session: only
\* in the turn of the loop where ready_to_process_data turns true, and
\* ready_to_process_data stays true until the session is torn down, so no
\* later AircraftDefinition makes it send Ready again.
C34_ReadySentOnce ==
    [][\A p \in Peers :
        LET a == app[p]
            b == app'[p]
            n == Count(b.out, Ready) - Count(a.out, Ready)
        IN /\ n \in {0, 1}
           /\ n = 1 => /\ Ticked(app_last')
                       /\ a.active
                       /\ ~a.is_host
                       /\ ~a.ready_to_process_data
                       /\ b.ready_to_process_data \/ ~b.active
           /\ (a.ready_to_process_data /\ ~b.ready_to_process_data) => ~b.active]_vars

\* ready, Ready sent once, and a later AircraftDefinition has restarted the
\* delay timer
C34_Witness ==
    /\ Ticked(app_last)
    /\ app[LocalPeer].active
    /\ ~app[LocalPeer].is_host
    /\ app[LocalPeer].ready_to_process_data
    /\ app[LocalPeer].out = <<Ready>>
    /\ app[LocalPeer].definition_age = Some(DelayLen)
    /\ app[LocalPeer].connection_time = Some(1)

\* a direct session that has received nothing from the transport and that
\* the application has not stopped
QuietDirect ==
    /\ rendezvous = None
    /\ wire = <<>>
    /\ net_in = <<>>
    /\ app_pc /= "stop"
    /\ \A i \in DOMAIN server_rx : server_rx[i] = UnablePunchthrough

HandshakesTo(addr) ==
    {i \in DOMAIN sent : sent[i].payload.type = "Handshake" /\ sent[i].to = addr}

\* C35: a direct session that receives nothing from the transport sends
\* exactly MAX_PUNCH_RETRIES + 1 Handshake datagrams to the target (one at
\* start, the others from the worker loop) and then stops with
\* UnablePunchthrough; a direct session never stops with
\* ConnectionLost("Could not connect to session.").
C35_SilentDirectSession ==
    /\ [](QuietDirect
            => /\ Cardinality(HandshakesTo(HostAddr)) <= MAX_PUNCH_RETRIES + 1
               /\ pc = "done"
                    => /\ Cardinality(HandshakesTo(HostAddr)) = MAX_PUNCH_RETRIES + 1
                       /\ server_rx = <<UnablePunchthrough>>
                       /\ should_stop)
    /\ [](rendezvous = None => Count(server_rx, CouldNotConnect) = 0)
    /\ <>(pc = "done" \/ ~QuietDirect)

C35_Witness ==
    /\ QuietDirect
    /\ n_env = 0
    /\ pc = "done"
    /\ retries = MAX_PUNCH_RETRIES
    /\ Cardinality(HandshakesTo(HostAddr)) = MAX_PUNCH_RETRIES + 1
    /\ server_rx = <<UnablePunchthrough>>

=============================================================================
